---- MODULE Spec2Model ----
(***************************************************************************)
(* Model of llm_planning_analysis/utils/llm_client.py and                  *)
(* llm_planning_analysis/utils/openrouter_client.py: the two cached client *)
(* factories and the message / response adapters.                          *)
(*                                                                         *)
(* Text is a sequence of characters, so joining and concatenating are real *)
(* operations.  An optional value is a sequence of length 0 (None) or 1.   *)
(***************************************************************************)
EXTENDS Integers, Sequences, FiniteSets, TLC

VARIABLES
    messages, prepared,        \* prepare_responses_messages: argument, result
    response, text,            \* extract_response_text: argument, result
    response_dict, plain,      \* response_to_dict: serialised response, result
    env,                       \* os.environ
    cache,                     \* the lru_cache of each factory
    constructed,               \* number of OpenAI(...) constructions per factory
    lastCall,                  \* outcome of the latest sequential factory call
    pc, local, ret             \* per thread: position, constructed client, returned client

(* ---------- bounds ---------- *)
MaxMsgs == 3
MaxItems == 2
MaxContents == 2
NumThreads == 2
MaxConstructed == 2

(* ---------- optional values and dictionaries ---------- *)
None == <<>>
Some(x) == <<x>>
Val(o) == o[1]

\* dict.get(key, default)
Get(d, key, default) == IF key \in DOMAIN d THEN d[key] ELSE default

EmptyText == <<>>
Texts == {EmptyText, <<"A">>, <<"B">>}
Roles == {"system", "user", "assistant"}

\* Dict[str, str] messages; either key may be missing
Messages ==
    {[role |-> r, content |-> c] : r \in Roles, c \in Texts}
        \cup {[role |-> r] : r \in Roles}
        \cup {[content |-> c] : c \in Texts}

SeqsUpTo(S, n) == UNION {[1..k -> S] : k \in 0..n}

(* ---------- prepare_responses_messages ---------- *)
Separator == <<"\n", "\n">>

\* a join that uses a single newline
RECURSIVE JoinSingleNewline(_)
JoinSingleNewline(parts) ==
    IF parts = <<>> THEN EmptyText
    ELSE IF Len(parts) = 1 THEN parts[1]
    ELSE parts[1] \o <<"\n">> \o JoinSingleNewline(Tail(parts))

\* "\n\n".join(parts)
RECURSIVE Join(_)
Join(parts) ==
    IF parts = <<>> THEN EmptyText
    ELSE IF Len(parts) = 1 THEN parts[1]
    ELSE parts[1] \o Separator \o Join(Tail(parts))

\* the for loop: i is the next index, parts / conv the two accumulators
RECURSIVE SplitLoop(_, _, _, _)
SplitLoop(msgs, i, parts, conv) ==
    IF i > Len(msgs) THEN [instructions_parts |-> parts, conversation |-> conv]
    ELSE LET role == Get(msgs[i], "role", "user")
             content == Get(msgs[i], "content", EmptyText)
         IN IF role = "system"
            THEN SplitLoop(msgs, i + 1, Append(parts, content), conv)
            ELSE SplitLoop(msgs, i + 1, parts,
                           Append(conv, [role |-> role, content |-> content]))

Placeholder == [role |-> "user", content |-> EmptyText]

\* a guard that never inserts the placeholder
KeepEmptyConversation(conv) == conv

FillEmptyConversation(conv) == IF conv = <<>> THEN <<Placeholder>> ELSE conv

JoinInstructions(parts) == IF parts # <<>> THEN Some(Join(parts)) ELSE None

prepare_responses_messages(msgs) ==
    LET r == SplitLoop(msgs, 1, <<>>, <<>>)
    IN [instructions |-> JoinInstructions(r.instructions_parts),
        conversation |-> FillEmptyConversation(r.conversation)]

(* ---------- extract_response_text ---------- *)
\* content items of a message: getattr(content, "type", None), getattr(content, "text", "")
ContentItems ==
    {[type |-> "output_text", text |-> <<"h">>],
     [type |-> "output_text", text |-> <<"i">>],
     [type |-> "output_text"],
     [type |-> "refusal", text |-> <<"h">>]}

\* output items: getattr(item, "type", None), getattr(item, "content", []) or []
OutputItems ==
    {[type |-> "message", content |-> c] :
        c \in {None} \cup {Some(l) : l \in SeqsUpTo(ContentItems, MaxContents)}}
        \cup {[type |-> "reasoning", content |-> None],
              [type |-> "reasoning",
               content |-> Some(<<[type |-> "output_text", text |-> <<"i">>]>>)],
              [content |-> Some(<<[type |-> "output_text", text |-> <<"h">>]>>)]}

\* getattr(response, "output_text", None), getattr(response, "output", []) or []
Responses ==
    [output_text : {None, Some(EmptyText), Some(<<"t">>)},
     output : {None} \cup {Some(l) : l \in SeqsUpTo(OutputItems, MaxItems)}]

\* "x or []" for an optional list
OrEmptyList(o) == IF o = None THEN <<>> ELSE Val(o)

\* truth value of an optional text: neither None nor ""
Truthy(o) == o # None /\ Val(o) # EmptyText

\* the inner for loop over item.content
RECURSIVE ContentLoop(_, _, _)
ContentLoop(contents, j, text_parts) ==
    IF j > Len(contents) THEN text_parts
    ELSE IF Get(contents[j], "type", "None") = "output_text"
         THEN ContentLoop(contents, j + 1,
                          Append(text_parts, Get(contents[j], "text", EmptyText)))
         ELSE ContentLoop(contents, j + 1, text_parts)

\* an outer loop that scans the content of every item, whatever its type
RECURSIVE OutputLoopAnyItem(_, _, _)
OutputLoopAnyItem(output, i, text_parts) ==
    IF i > Len(output) THEN text_parts
    ELSE OutputLoopAnyItem(output, i + 1,
                           ContentLoop(OrEmptyList(Get(output[i], "content", None)),
                                       1, text_parts))

\* the outer for loop over response.output
RECURSIVE OutputLoop(_, _, _)
OutputLoop(output, i, text_parts) ==
    IF i > Len(output) THEN text_parts
    ELSE IF Get(output[i], "type", "None") # "message"
         THEN OutputLoop(output, i + 1, text_parts)
         ELSE OutputLoop(output, i + 1,
                         ContentLoop(OrEmptyList(Get(output[i], "content", None)),
                                     1, text_parts))

\* "".join(text_parts)
RECURSIVE Concat(_)
Concat(parts) == IF parts = <<>> THEN EmptyText ELSE parts[1] \o Concat(Tail(parts))

\* an extraction that never takes the early return
NeverUsesOutputText(output_text) == FALSE

\* the early return: "if output_text:"
UsesOutputText(output_text) == Truthy(output_text)

extract_response_text(resp) ==
    IF UsesOutputText(resp.output_text)
    THEN Val(resp.output_text)
    ELSE Concat(OutputLoop(OrEmptyList(resp.output), 1, <<>>))

(* ---------- response_to_dict ---------- *)
TokenCounts == {None, Some(3), Some(5)}
UsageKeys == {"input_tokens", "output_tokens", "prompt_tokens", "completion_tokens",
              "total_tokens"}

\* the dictionaries a serialised usage can be: any subset of the keys, each null or a count
UsageDicts == UNION {[K -> TokenCounts] : K \in SUBSET UsageKeys}

\* model_dump(mode="json"): "usage" missing, null, or a dictionary
ResponseDicts ==
    {[id |-> "resp_1"]}
        \cup {[id |-> "resp_1", usage |-> u] : u \in {None} \cup {Some(d) : d \in UsageDicts}}

\* dict.get(key): None for a missing key
GetOrNone(d, key) == Get(d, key, None)

\* an assignment that overwrites an existing key
SetAlways(d, key, value) ==
    [k \in DOMAIN d \cup {key} |-> IF k = key THEN value ELSE d[k]]

\* dict.setdefault(key, value)
SetDefault(d, key, value) ==
    IF key \in DOMAIN d THEN d
    ELSE [k \in DOMAIN d \cup {key} |-> IF k = key THEN value ELSE d[k]]

NormaliseUsage(usage) ==
    LET prompt == GetOrNone(usage, "input_tokens")
        completion == GetOrNone(usage, "output_tokens")
    IN SetDefault(SetDefault(usage, "prompt_tokens", prompt),
                  "completion_tokens", completion)

\* isinstance(usage, dict)
IsDict(u) == u # None

response_to_dict(dumped) ==
    LET usage == GetOrNone(dumped, "usage")
    IN IF IsDict(usage)
       THEN [dumped EXCEPT !["usage"] = Some(NormaliseUsage(Val(usage)))]
       ELSE dumped

(* ---------- os.environ ---------- *)
EnvNames == {"OPENROUTER_API_KEY", "OPENROUTER_BASE_URL", "OPENROUTER_HTTP_REFERER",
             "OPENROUTER_TITLE", "OPENROUTER_X_TITLE", "OPENROUTER_REFERER",
             "OPENROUTER_APP_NAME"}

\* values a variable takes: unset (None), set to "", set to a value
EnvValues(name) ==
    CASE name = "OPENROUTER_API_KEY" -> {None, Some(""), Some("k1"), Some("k2")}
      [] name = "OPENROUTER_BASE_URL" -> {None, Some("http://u")}
      [] name = "OPENROUTER_HTTP_REFERER" -> {None, Some(""), Some("ref")}
      [] name = "OPENROUTER_TITLE" -> {None, Some(""), Some("t1")}
      [] name = "OPENROUTER_X_TITLE" -> {None, Some("t2")}
      [] name = "OPENROUTER_REFERER" -> {None, Some("ref2")}
      [] name = "OPENROUTER_APP_NAME" -> {None, Some("app")}

Envs ==
    [OPENROUTER_API_KEY : EnvValues("OPENROUTER_API_KEY"),
     OPENROUTER_BASE_URL : EnvValues("OPENROUTER_BASE_URL"),
     OPENROUTER_HTTP_REFERER : EnvValues("OPENROUTER_HTTP_REFERER"),
     OPENROUTER_TITLE : EnvValues("OPENROUTER_TITLE"),
     OPENROUTER_X_TITLE : EnvValues("OPENROUTER_X_TITLE"),
     OPENROUTER_REFERER : EnvValues("OPENROUTER_REFERER"),
     OPENROUTER_APP_NAME : EnvValues("OPENROUTER_APP_NAME")]

\* os.getenv(name) / os.environ.get(name)
getenv(e, name) == e[name]

\* os.getenv(name, default)
getenv_default(e, name, default) == IF e[name] = None THEN default ELSE Val(e[name])

\* truth value of an optional string
TruthyStr(o) == o # None /\ Val(o) # ""

\* a or b
Or(a, b) == IF TruthyStr(a) THEN a ELSE b

EmptyDict == [k \in {} |-> ""]

\* headers[key] = value
SetItem(d, key, value) == [k \in DOMAIN d \cup {key} |-> IF k = key THEN value ELSE d[k]]

DefaultBaseUrl == "https://openrouter.ai/api/v1"

(* ---------- llm_client.py: _build_default_headers, get_llm_client ---------- *)
\* "headers or None": an empty dictionary becomes None
HeadersOrNone(headers) == IF headers = EmptyDict THEN None ELSE Some(headers)

_build_default_headers(e) ==
    LET referer == getenv(e, "OPENROUTER_HTTP_REFERER")
        h1 == IF TruthyStr(referer) THEN SetItem(EmptyDict, "HTTP-Referer", Val(referer))
              ELSE EmptyDict
        title == Or(getenv(e, "OPENROUTER_TITLE"), getenv(e, "OPENROUTER_X_TITLE"))
        h2 == IF TruthyStr(title) THEN SetItem(h1, "X-Title", Val(title)) ELSE h1
    IN HeadersOrNone(h2)

\* a credential lookup that falls back to a built-in key
LlmApiKeyWithDefault(e) ==
    IF e["OPENROUTER_API_KEY"] = None THEN Some("sk-default") ELSE e["OPENROUTER_API_KEY"]

\* api_key = os.environ.get("OPENROUTER_API_KEY")
LlmApiKey(e) == e["OPENROUTER_API_KEY"]

\* body of get_llm_client: raises, or the arguments it passes to OpenAI(...)
get_llm_client_body(e) ==
    LET api_key == LlmApiKey(e)
    IN IF ~TruthyStr(api_key)
       THEN [raised |-> TRUE, exc |-> "RuntimeError"]
       ELSE [raised |-> FALSE,
             api_key |-> Val(api_key),
             base_url |-> getenv_default(e, "OPENROUTER_BASE_URL", DefaultBaseUrl),
             default_headers |-> _build_default_headers(e)]

(* ---------- openrouter_client.py: _optional_header, get_openrouter_client ---------- *)
_optional_header(e, name, header, headers) ==
    LET value == getenv(e, name)
    IN IF TruthyStr(value) THEN SetItem(headers, header, Val(value)) ELSE headers

get_openrouter_client_body(e) ==
    LET api_key == getenv(e, "OPENROUTER_API_KEY")
    IN IF ~TruthyStr(api_key)
       THEN [raised |-> TRUE, exc |-> "EnvironmentError"]
       ELSE [raised |-> FALSE,
             api_key |-> Val(api_key),
             base_url |-> getenv_default(e, "OPENROUTER_BASE_URL", DefaultBaseUrl),
             default_headers |->
                 Some(_optional_header(e, "OPENROUTER_APP_NAME", "X-Title",
                      _optional_header(e, "OPENROUTER_REFERER", "HTTP-Referer",
                                       EmptyDict)))]

(* ---------- functools.lru_cache around a function without arguments ---------- *)
Factories == {"get_llm_client", "get_openrouter_client"}

Body(f, e) == IF f = "get_llm_client" THEN get_llm_client_body(e)
              ELSE get_openrouter_client_body(e)

\* OpenAI(api_key=..., base_url=..., default_headers=...): a new object, id its identity
OpenAI(f, n, args) ==
    [id |-> <<f, n>>, api_key |-> args.api_key, base_url |-> args.base_url,
     default_headers |-> args.default_headers]

\* a lookup that never finds the entry
CacheNeverHit(c) == FALSE

\* the wrapper's lookup
CacheHit(c) == c # None

\* a store that drops the result
CacheStoreNothing(c, client) == c

\* the wrapper's store after the call returned: an entry made meanwhile is kept
CacheStore(c, client) == IF c = None THEN Some(client) ELSE c

NoCall == [factory |-> "none"]

(* ---------- sequential use: one caller, the environment changing between calls ---------- *)
IdleAdapters ==
    /\ messages = <<>> /\ prepared = None
    /\ response = [output_text |-> None, output |-> None] /\ text = None
    /\ response_dict = [id |-> "resp_1"] /\ plain = None

UnchangedAdapters == UNCHANGED <<messages, prepared, response, text, response_dict, plain>>

Threads == 1..NumThreads

AtIdle == [at |-> "idle", f |-> "none"]

IdleThreads ==
    /\ pc = [t \in Threads |-> AtIdle]
    /\ local = [t \in Threads |-> None]
    /\ ret = [t \in Threads |-> None]

IdleFactories ==
    /\ env = [n \in EnvNames |-> None]
    /\ cache = [f \in Factories |-> None]
    /\ constructed = [f \in Factories |-> 0]
    /\ lastCall = NoCall

Init ==
    /\ env \in Envs
    /\ cache = [f \in Factories |-> None]
    /\ constructed = [f \in Factories |-> 0]
    /\ lastCall = NoCall
    /\ IdleThreads
    /\ IdleAdapters

\* os.environ[name] = value, or del os.environ[name]
SetEnv(name, value) ==
    /\ env[name] # value
    /\ env' = [env EXCEPT ![name] = value]
    /\ UNCHANGED <<cache, constructed, lastCall, pc, local, ret>>
    /\ UnchangedAdapters

\* one complete call f() of a cached factory
Call(f) ==
    /\ constructed[f] < MaxConstructed
    /\ IF CacheHit(cache[f])
       THEN /\ lastCall' = [factory |-> f, outcome |-> "return", ranBody |-> FALSE,
                            client |-> cache[f]]
            /\ UNCHANGED <<cache, constructed>>
       ELSE LET r == Body(f, env)
            IN IF r.raised
               THEN /\ lastCall' = [factory |-> f, outcome |-> "raise", ranBody |-> TRUE,
                                    exc |-> r.exc]
                    /\ UNCHANGED <<cache, constructed>>
               ELSE LET client == OpenAI(f, constructed[f] + 1, r)
                    IN /\ constructed' = [constructed EXCEPT ![f] = @ + 1]
                       /\ cache' = [cache EXCEPT ![f] = CacheStore(@, client)]
                       /\ lastCall' = [factory |-> f, outcome |-> "return",
                                       ranBody |-> TRUE, client |-> Some(client)]
    /\ UNCHANGED <<env, pc, local, ret>>
    /\ UnchangedAdapters

CallLlmClient == Call("get_llm_client")
CallOpenrouterClient == Call("get_openrouter_client")
ChangeEnv == \E n \in EnvNames : \E v \in EnvValues(n) : SetEnv(n, v)

Next == CallLlmClient \/ CallOpenrouterClient \/ ChangeEnv

vars == <<messages, prepared, response, text, response_dict, plain,
          env, cache, constructed, lastCall, pc, local, ret>>

Spec == Init /\ [][Next]_vars

(* ---------- concurrent use: several threads calling the factories ---------- *)
InitThreads ==
    /\ env \in {e \in Envs : /\ e["OPENROUTER_API_KEY"] \in {None, Some("k1")}
                             /\ \A n \in EnvNames \ {"OPENROUTER_API_KEY"} : e[n] = None}
    /\ cache = [f \in Factories |-> None]
    /\ constructed = [f \in Factories |-> 0]
    /\ lastCall = NoCall
    /\ IdleThreads
    /\ IdleAdapters

UnchangedSequential == UNCHANGED <<env, lastCall>>

\* thread t calls f()
Begin(t, f) ==
    /\ pc[t].at = "idle"
    /\ pc' = [pc EXCEPT ![t] = [at |-> "lookup", f |-> f]]
    /\ UNCHANGED <<cache, constructed, local, ret>>
    /\ UnchangedSequential /\ UnchangedAdapters

\* the wrapper looks the key up: a hit returns the cached client, a miss goes on to
\* call the wrapped function
Lookup(t) ==
    /\ pc[t].at = "lookup"
    /\ IF CacheHit(cache[pc[t].f])
       THEN /\ ret' = [ret EXCEPT ![t] = cache[pc[t].f]]
            /\ pc' = [pc EXCEPT ![t].at = "done"]
       ELSE /\ pc' = [pc EXCEPT ![t].at = "body"]
            /\ UNCHANGED ret
    /\ UNCHANGED <<cache, constructed, local>>
    /\ UnchangedSequential /\ UnchangedAdapters

\* the wrapped function runs, outside any lock: it raises or constructs a client
RunBody(t) ==
    /\ pc[t].at = "body"
    /\ LET f == pc[t].f
           r == Body(f, env)
       IN IF r.raised
          THEN /\ pc' = [pc EXCEPT ![t].at = "raised"]
               /\ UNCHANGED <<constructed, local>>
          ELSE /\ constructed' = [constructed EXCEPT ![f] = @ + 1]
               /\ local' = [local EXCEPT ![t] = Some(OpenAI(f, constructed[f] + 1, r))]
               /\ pc' = [pc EXCEPT ![t].at = "store"]
    /\ UNCHANGED <<cache, ret>>
    /\ UnchangedSequential /\ UnchangedAdapters

\* the wrapper stores the result unless the key was added meanwhile, and returns the
\* result of its own call
Store(t) ==
    /\ pc[t].at = "store"
    /\ cache' = [cache EXCEPT ![pc[t].f] = CacheStore(@, Val(local[t]))]
    /\ ret' = [ret EXCEPT ![t] = local[t]]
    /\ pc' = [pc EXCEPT ![t].at = "done"]
    /\ UNCHANGED <<constructed, local>>
    /\ UnchangedSequential /\ UnchangedAdapters

BeginCall == \E t \in Threads : \E f \in Factories : Begin(t, f)
LookupStep == \E t \in Threads : Lookup(t)
BodyStep == \E t \in Threads : RunBody(t)
StoreStep == \E t \in Threads : Store(t)

NextThreads == BeginCall \/ LookupStep \/ BodyStep \/ StoreStep

SpecThreads == InitThreads /\ [][NextThreads]_vars

(* ---------- the message adapter applied to bounded inputs ---------- *)
InitPrepare ==
    /\ messages \in SeqsUpTo(Messages, MaxMsgs)
    /\ prepared = None
    /\ response = [output_text |-> None, output |-> None] /\ text = None
    /\ response_dict = [id |-> "resp_1"] /\ plain = None
    /\ IdleFactories /\ IdleThreads

CallPrepare ==
    /\ prepared = None
    /\ prepared' = Some(prepare_responses_messages(messages))
    /\ UNCHANGED <<messages, response, text, response_dict, plain,
                   env, cache, constructed, lastCall, pc, local, ret>>

NextPrepare == CallPrepare

SpecPrepare == InitPrepare /\ [][NextPrepare]_vars

(* ---------- the response adapters applied to bounded inputs ---------- *)
InitExtract ==
    /\ response \in Responses
    /\ text = None
    /\ messages = <<>> /\ prepared = None
    /\ response_dict = [id |-> "resp_1"] /\ plain = None
    /\ IdleFactories /\ IdleThreads

CallExtract ==
    /\ text = None
    /\ text' = Some(extract_response_text(response))
    /\ UNCHANGED <<messages, prepared, response, response_dict, plain,
                   env, cache, constructed, lastCall, pc, local, ret>>

NextExtract == CallExtract

SpecExtract == InitExtract /\ [][NextExtract]_vars

InitUsage ==
    /\ response_dict \in ResponseDicts
    /\ plain = None
    /\ messages = <<>> /\ prepared = None
    /\ response = [output_text |-> None, output |-> None] /\ text = None
    /\ IdleFactories /\ IdleThreads

CallToDict ==
    /\ plain = None
    /\ plain' = Some(response_to_dict(response_dict))
    /\ UNCHANGED <<messages, prepared, response, text, response_dict,
                   env, cache, constructed, lastCall, pc, local, ret>>

NextUsage == CallToDict

SpecUsage == InitUsage /\ [][NextUsage]_vars

(* ---------- properties of prepare_responses_messages ---------- *)
IsSystem(m) == "role" \in DOMAIN m /\ m["role"] = "system"
NotSystem(m) == ~IsSystem(m)
WellFormed(msgs) == \A i \in DOMAIN msgs : DOMAIN msgs[i] = {"role", "content"}

\* contents of the messages of msgs, in order
ContentsOf(msgs) == [i \in DOMAIN msgs |-> msgs[i]["content"]]

\* the texts of ts with a blank line between neighbours, built from the right end
RECURSIVE BlankLineJoined(_)
BlankLineJoined(ts) ==
    IF Len(ts) = 0 THEN <<>>
    ELSE IF Len(ts) = 1 THEN ts[1]
    ELSE BlankLineJoined(SubSeq(ts, 1, Len(ts) - 1)) \o <<"\n", "\n">> \o ts[Len(ts)]

ExpectedInstructions(msgs) ==
    LET sys == SelectSeq(msgs, IsSystem)
    IN IF sys = <<>> THEN None ELSE Some(BlankLineJoined(ContentsOf(sys)))

\* C4 as stated: for every sequence of role/content messages the instructions are
\* the system contents joined by a blank line (None without a system message) and
\* the conversation is exactly the non-system messages, in order and unchanged.
C4_AsStated ==
    (prepared # None /\ WellFormed(messages)) =>
        /\ Val(prepared).instructions = ExpectedInstructions(messages)
        /\ Val(prepared).conversation = SelectSeq(messages, NotSystem)

\* C4 amended: the instructions are as stated for every input; the conversation is
\* exactly the non-system messages, in order and unchanged, whenever the input has
\* at least one non-system message.
C4_InstructionsAndConversation ==
    (prepared # None /\ WellFormed(messages)) =>
        /\ Val(prepared).instructions = ExpectedInstructions(messages)
        /\ (SelectSeq(messages, NotSystem) # <<>> =>
                Val(prepared).conversation = SelectSeq(messages, NotSystem))

C4_Witness ==
    /\ prepared # None
    /\ WellFormed(messages)
    /\ Len(SelectSeq(messages, IsSystem)) >= 2
    /\ Len(SelectSeq(messages, NotSystem)) >= 1
    /\ messages[1]["role"] = "system"
    /\ messages[1]["content"] # messages[Len(messages)]["content"]

\* C5: the conversation is never empty; without a non-system message it is exactly
\* the single placeholder; with one, no placeholder is added (one entry per
\* non-system message).
C5_NeverEmptyConversation ==
    prepared # None =>
        LET conv == Val(prepared).conversation
            rest == SelectSeq(messages, NotSystem)
        IN /\ Len(conv) >= 1
           /\ (rest = <<>> => conv = <<[role |-> "user", content |-> <<>>]>>)
           /\ (rest # <<>> => Len(conv) = Len(rest))

C5_Witness ==
    /\ prepared # None
    /\ Len(messages) >= 1
    /\ \A i \in DOMAIN messages : IsSystem(messages[i])
    /\ Val(prepared).conversation = <<[role |-> "user", content |-> <<>>]>>

(* ---------- properties of extract_response_text ---------- *)
IsOutputTextItem(c) == "type" \in DOMAIN c /\ c["type"] = "output_text"
IsMessageItem(it) == "type" \in DOMAIN it /\ it["type"] = "message"

TextOf(c) == IF "text" \in DOMAIN c THEN c["text"] ELSE <<>>

\* the texts of the output_text entries of one content list, concatenated
RECURSIVE TextsOfContents(_)
TextsOfContents(cs) ==
    IF cs = <<>> THEN <<>>
    ELSE TextsOfContents(SubSeq(cs, 1, Len(cs) - 1))
            \o (IF IsOutputTextItem(cs[Len(cs)]) THEN TextOf(cs[Len(cs)]) ELSE <<>>)

ContentsOfItem(it) ==
    IF "content" \in DOMAIN it /\ it["content"] # None THEN Val(it["content"]) ELSE <<>>

\* the text of all output_text entries inside message items, in encounter order
RECURSIVE MessageText(_)
MessageText(items) ==
    IF items = <<>> THEN <<>>
    ELSE MessageText(SubSeq(items, 1, Len(items) - 1))
            \o (IF IsMessageItem(items[Len(items)])
                THEN TextsOfContents(ContentsOfItem(items[Len(items)]))
                ELSE <<>>)

ExpectedText(resp) == IF resp.output = None THEN <<>> ELSE MessageText(Val(resp.output))

\* C6 as stated: a response that exposes output_text gets that value back verbatim,
\* whatever its output items contain, for every value including the empty string.
C6_AsStated ==
    (text # None /\ response.output_text # None) => Val(text) = Val(response.output_text)

\* C6 amended: a non-empty output_text is returned verbatim whatever the output items
\* contain; an empty output_text is treated like a missing one, the result being the
\* text gathered from the output items.
C6_NonEmptyOutputTextVerbatim ==
    (text # None /\ response.output_text # None) =>
        IF Val(response.output_text) # <<>>
        THEN Val(text) = Val(response.output_text)
        ELSE Val(text) = ExpectedText(response)

C6_Witness ==
    /\ text # None
    /\ response.output_text = Some(<<"t">>)
    /\ ExpectedText(response) = <<"h", "i">>
    /\ Val(text) = <<"t">>

\* C7: without a precomputed text field the result is the concatenation, in encounter
\* order, of the text of the output_text content entries inside message items; other
\* items and other content types add nothing; it is empty when there is no such
\* content or no output sequence.
C7_NestedTextInOrder ==
    (text # None /\ response.output_text = None) => Val(text) = ExpectedText(response)

C7_Witness ==
    /\ text # None
    /\ response.output_text = None
    /\ response.output # None
    /\ \E i \in DOMAIN Val(response.output) :
          /\ ~IsMessageItem(Val(response.output)[i])
          /\ ContentsOfItem(Val(response.output)[i]) # <<>>
    /\ Val(text) = <<"h", "i">>

(* ---------- properties of response_to_dict ---------- *)
HasUsageDict(d) == "usage" \in DOMAIN d /\ d["usage"] # None

ValueOrNone(u, key) == IF key \in DOMAIN u THEN u[key] ELSE None

\* C8: with a usage sub-mapping, usage afterwards has prompt_tokens and
\* completion_tokens; one that was missing has the value of input_tokens /
\* output_tokens (null when that is missing too), one that was there keeps its value,
\* and every other entry of usage and of the mapping is unchanged; without a usage
\* sub-mapping the mapping is returned unchanged.
C8_UsageAliases ==
    plain # None =>
        IF HasUsageDict(response_dict)
        THEN LET before == Val(response_dict["usage"])
                 after == Val(Val(plain)["usage"])
             IN /\ DOMAIN Val(plain) = DOMAIN response_dict
                /\ \A k \in DOMAIN response_dict \ {"usage"} :
                      Val(plain)[k] = response_dict[k]
                /\ DOMAIN after = DOMAIN before \cup {"prompt_tokens", "completion_tokens"}
                /\ \A k \in DOMAIN before : after[k] = before[k]
                /\ ("prompt_tokens" \notin DOMAIN before =>
                       after["prompt_tokens"] = ValueOrNone(before, "input_tokens"))
                /\ ("completion_tokens" \notin DOMAIN before =>
                       after["completion_tokens"] = ValueOrNone(before, "output_tokens"))
        ELSE Val(plain) = response_dict

C8_Witness ==
    /\ plain # None
    /\ HasUsageDict(response_dict)
    /\ Val(response_dict["usage"]) =
          [input_tokens |-> Some(3), output_tokens |-> Some(5), prompt_tokens |-> Some(5)]
    /\ Val(Val(plain)["usage"]) =
          [input_tokens |-> Some(3), output_tokens |-> Some(5), prompt_tokens |-> Some(5),
           completion_tokens |-> Some(5)]

(* ---------- properties of the client factories ---------- *)
CredentialSet(e) == e["OPENROUTER_API_KEY"] # None /\ Val(e["OPENROUTER_API_KEY"]) # ""

\* the exception classes the two factories use for a missing credential
ConfigurationErrors == {"RuntimeError", "EnvironmentError"}

\* C1: a call made with nothing cached and the credential absent (unset, or empty)
\* raises the configuration error, constructs no client and caches nothing; no
\* credential is made up.
C1_MissingCredentialFails ==
    [][\A f \in Factories :
          (Call(f) /\ cache[f] = None /\ ~CredentialSet(env)) =>
              /\ lastCall'.outcome = "raise"
              /\ lastCall'.exc \in ConfigurationErrors
              /\ constructed' = constructed
              /\ cache' = cache]_vars

C1_Witness ==
    /\ lastCall.factory = "get_llm_client"
    /\ lastCall.outcome = "raise"
    /\ env["OPENROUTER_API_KEY"] = None
    /\ cache["get_llm_client"] = None
    /\ constructed["get_llm_client"] = 0

\* C2: once a factory holds a client, every step keeps that client and the number of
\* constructions, every call returns that very client without running the body (no
\* configuration is read), whatever the environment has become; a factory constructs
\* at most one client.
C2_CachedInstanceReused ==
    /\ [](\A f \in Factories : constructed[f] <= 1)
    /\ [][\A f \in Factories :
            cache[f] # None =>
                /\ cache'[f] = cache[f]
                /\ constructed'[f] = constructed[f]
                /\ (Call(f) =>
                        lastCall' = [factory |-> f, outcome |-> "return",
                                     ranBody |-> FALSE, client |-> cache[f]])]_vars

C2_Witness ==
    /\ lastCall.factory = "get_llm_client"
    /\ lastCall.outcome = "return"
    /\ ~lastCall.ranBody
    /\ lastCall.client = cache["get_llm_client"]
    /\ env["OPENROUTER_API_KEY"] = None
    /\ env["OPENROUTER_BASE_URL"] # None
    /\ Val(cache["get_llm_client"]).base_url = DefaultBaseUrl

\* C10: a call made with nothing cached and the credential absent runs the body,
\* raises and leaves cache, construction count and environment as they were, so the
\* next call starts from the same state; a call made with nothing cached and the
\* credential set runs the body, constructs one client with that credential,
\* returns it and caches it.
C10_FailureLeavesCacheEmpty ==
    [][\A f \in Factories :
          (Call(f) /\ cache[f] = None) =>
              IF CredentialSet(env)
              THEN /\ lastCall'.outcome = "return"
                   /\ lastCall'.ranBody
                   /\ cache'[f] # None
                   /\ cache'[f] = lastCall'.client
                   /\ Val(cache'[f]).api_key = Val(env["OPENROUTER_API_KEY"])
                   /\ constructed'[f] = constructed[f] + 1
              ELSE /\ lastCall'.outcome = "raise"
                   /\ lastCall'.ranBody
                   /\ cache' = cache
                   /\ constructed' = constructed
                   /\ env' = env]_vars

C10_Witness ==
    /\ lastCall.factory = "get_openrouter_client"
    /\ lastCall.outcome = "raise"
    /\ env["OPENROUTER_API_KEY"] = Some("")
    /\ cache["get_openrouter_client"] = None
    /\ constructed["get_openrouter_client"] = 0
    /\ cache["get_llm_client"] # None

\* the variable a factory reads for the referrer header, and those for the title
RefererName(f) ==
    IF f = "get_llm_client" THEN "OPENROUTER_HTTP_REFERER" ELSE "OPENROUTER_REFERER"
TitleNames(f) ==
    IF f = "get_llm_client" THEN <<"OPENROUTER_TITLE", "OPENROUTER_X_TITLE">>
    ELSE <<"OPENROUTER_APP_NAME">>

IsSet(e, name) == e[name] # None /\ Val(e[name]) # ""

\* the header map of the claim: the referrer iff set, the title iff one of its names is
\* set (the first one set), and no map at all when neither is
ExpectedHeaders(f, e) ==
    LET setTitles == SelectSeq(TitleNames(f), LAMBDA n : IsSet(e, n))
        keys == (IF IsSet(e, RefererName(f)) THEN {"HTTP-Referer"} ELSE {})
                    \cup (IF setTitles # <<>> THEN {"X-Title"} ELSE {})
    IN IF keys = {} THEN None
       ELSE Some([k \in keys |-> IF k = "HTTP-Referer" THEN Val(e[RefererName(f)])
                                 ELSE Val(e[setTitles[1]])])

\* C9 as stated: the client a factory constructs carries exactly the descriptive
\* headers whose variable is set, and no header map at all when neither is set.
C9_AsStated ==
    [][\A f \in Factories :
          (Call(f) /\ cache[f] = None /\ CredentialSet(env)) =>
              Val(cache'[f]).default_headers = ExpectedHeaders(f, env)]_vars

\* the same statement for get_llm_client alone
HeadersOfLlmClient ==
    [][(Call("get_llm_client") /\ cache["get_llm_client"] = None /\ CredentialSet(env)) =>
          Val(cache'["get_llm_client"]).default_headers
              = ExpectedHeaders("get_llm_client", env)]_vars

\* C3 as stated: however the threads interleave, a factory constructs at most one
\* client and all threads that called it got the same client.
C3_AsStated ==
    \A f \in Factories :
        /\ constructed[f] <= 1
        /\ \A t1, t2 \in Threads :
              (pc[t1] = [at |-> "done", f |-> f] /\ pc[t2] = [at |-> "done", f |-> f])
                  => ret[t1] = ret[t2]

====
